---- MODULE Spec2Model ----
(***************************************************************************)
(* LocalChefBazaar REST backend: the role/status authorization, the       *)
(* role-upgrade workflow and the order lifecycle, as a state machine over *)
(* the document store.                                                     *)
(*                                                                         *)
(* Every route handler is an async function: it runs until it awaits a    *)
(* store call, the store applies that call atomically, and the handler    *)
(* resumes later.  Other handlers run in between.  One action of the      *)
(* model is therefore one store call together with the handler code that  *)
(* follows it up to the next store call (or the response).  A handler     *)
(* that makes a single store call is one action.  Handlers are modelled   *)
(* from the point where `await initializeDB()` has returned.              *)
(*                                                                         *)
(* The lazy store initialization itself is modelled separately           *)
(* (InitializeDBCall and the steps after it).                              *)
(*                                                                         *)
(* A collection is a sequence of documents in insertion order; the _id of *)
(* a document is its position.  No handler modelled here deletes.         *)
(***************************************************************************)
EXTENDS Integers, Sequences, FiniteSets, TLC

VARIABLES users, requests, orders, meals, favorites, db, now, h, resp

vars == <<users, requests, orders, meals, favorites, db, now, h, resp>>

(***************************************************************************)
(* Bounds of the model.                                                    *)
(***************************************************************************)
MaxUsers == 2
MaxRequests == 2
MaxOrders == 2
MaxMeals == 1
MaxTime == 2
MaxFavorites == 2
MaxListed == 24
MaxListing == 1
MaxFailures == 3

(* Concurrent request handlers that can be suspended on a store call. *)
Procs == {"p1", "p2"}

Emails == {"a@x.com", "b@x.com"}
Names == {"Ann"}
RequestTypes == {"chef", "admin"}
(* req.body.status of PATCH /requests/:id is not validated: any string. *)
ResolveStatuses == {"approved", "rejected", "pending"}

(***************************************************************************)
(* Store primitives (the driver calls the handlers use).                   *)
(***************************************************************************)

(* A filter { k1: v1, ... } matches a document with those field values. *)
Matches(doc, filter) ==
    \A k \in DOMAIN filter : k \in DOMAIN doc /\ doc[k] = filter[k]

(* findOne(filter): position of the first matching document, 0 for null. *)
FindOne(coll, filter) ==
    IF \E i \in DOMAIN coll : Matches(coll[i], filter)
    THEN CHOOSE i \in DOMAIN coll :
             /\ Matches(coll[i], filter)
             /\ \A j \in DOMAIN coll : Matches(coll[j], filter) => i <= j
    ELSE 0

(* { ...doc, ...fields } and $set: fields overrides doc, other keys kept. *)
SetFields(doc, fields) ==
    [k \in DOMAIN doc \cup DOMAIN fields |->
        IF k \in DOMAIN fields THEN fields[k] ELSE doc[k]]

(* updateOne(filter, {$set: fields}): the first matching document only. *)
UpdateOne(coll, filter, fields) ==
    LET i == FindOne(coll, filter)
    IN  IF i = 0 THEN coll ELSE [coll EXCEPT ![i] = SetFields(coll[i], fields)]

(* updateOne({_id}, {$set: fields}). *)
UpdateById(coll, id, fields) ==
    IF id \in DOMAIN coll
    THEN [coll EXCEPT ![id] = SetFields(coll[id], fields)]
    ELSE coll

(* matchedCount of updateOne({_id}, ...). *)
MatchedById(coll, id) == IF id \in DOMAIN coll THEN 1 ELSE 0

(***************************************************************************)
(* chefId generation: "chef-" + Math.floor(1000 + Math.random() * 9000).   *)
(* A string is a sequence of characters.  Math.random() is in [0,1), so   *)
(* Math.floor(Math.random() * 9000) is an integer r in 0..8999 and the    *)
(* number appended is 1000 + r, converted to decimal.                      *)
(***************************************************************************)
ChefBase == 1000
ChefSpan == 9000
RandSamples == {0, ChefSpan - 1}

DigitChars == <<"0", "1", "2", "3", "4", "5", "6", "7", "8", "9">>

RECURSIVE NumberToString(_)
NumberToString(n) ==
    IF n < 10 THEN <<DigitChars[n + 1]>>
    ELSE NumberToString(n \div 10) \o <<DigitChars[(n % 10) + 1]>>

NoChefId == << >>

(* Mutant: the offset 1000 is forgotten. *)
GenChefId_NoBase(r) == <<"c", "h", "e", "f", "-">> \o NumberToString(r)

GenChefId(r) == <<"c", "h", "e", "f", "-">> \o NumberToString(ChefBase + r)

(***************************************************************************)
(* Handler slots and the last response sent.                               *)
(***************************************************************************)
Idle == [op |-> "none", pc |-> "idle", arg |-> [none |-> TRUE]]

IsIdle(p) == h[p].pc = "idle"

InFlight(op) == Cardinality({p \in Procs : h[p].op = op})

Response(op, code, msg) == [op |-> op, code |-> code, msg |-> msg]

(***************************************************************************)
(* initializeDB: the lazy, shared store initialization every handler      *)
(* awaits first.  db.collections is Object.keys(collections).length > 0,  *)
(* db.connected is client.topology.isConnected(); db.connects counts the  *)
(* topologies client.connect() has opened, db.assigns the assignments to  *)
(* collections, db.succeeded the calls that returned after the ping and   *)
(* db.failed the calls that threw.                                         *)
(***************************************************************************)
NotEstablished ==
    [collections |-> FALSE, connected |-> FALSE,
     connects |-> 0, assigns |-> 0, succeeded |-> 0, failed |-> 0]

Established ==
    [collections |-> TRUE, connected |-> TRUE,
     connects |-> 1, assigns |-> 1, succeeded |-> 1, failed |-> 0]

(* collections = { meals: ..., ..., payments: ... } *)
AssignCollections(d) ==
    [d EXCEPT !.collections = TRUE, !.assigns = d.assigns + 1]

Pinging(p) == [op |-> "initializeDB", pc |-> "ping", arg |-> [none |-> TRUE]]

(* The call up to its first await: return at once when collections is     *)
(* non-empty; else connect unless the topology is connected; with a        *)
(* connected topology assign collections and ping.                         *)
InitializeDBCall(p) ==
    /\ IsIdle(p)
    /\ IF db.collections
       THEN /\ resp' = Response("initializeDB", 0, "returned")
            /\ h' = h /\ db' = db
       ELSE IF ~db.connected
       THEN /\ h' = [h EXCEPT ![p] =
                      [op |-> "initializeDB", pc |-> "connect", arg |-> [none |-> TRUE]]]
            /\ db' = db /\ resp' = resp
       ELSE /\ db' = AssignCollections(db)
            /\ h' = [h EXCEPT ![p] = Pinging(p)]
            /\ resp' = resp
    /\ UNCHANGED <<users, requests, orders, meals, favorites, now>>

(* await client.connect() settles.  Rejected: the error is rethrown and   *)
(* the handler's catch answers 500.  Resolved: collections is assigned    *)
(* and the ping is sent.  Whether a connect() issued while another call's *)
(* connect() was in flight opens a topology of its own is the driver's    *)
(* choice (opened).                                                        *)
ConnectSettles(p, ok, opened) ==
    /\ h[p].op = "initializeDB" /\ h[p].pc = "connect"
    /\ (ok /\ ~db.connected) => opened
    /\ IF ok
       THEN /\ db' = AssignCollections(
                        [db EXCEPT !.connected = TRUE,
                                   !.connects = IF opened THEN db.connects + 1
                                                ELSE db.connects])
            /\ h' = [h EXCEPT ![p] = Pinging(p)]
            /\ resp' = resp
       ELSE /\ ~opened
            /\ db.failed < MaxFailures
            /\ db' = [db EXCEPT !.failed = db.failed + 1]
            /\ h' = [h EXCEPT ![p] = Idle]
            /\ resp' = Response("initializeDB", 500, "Server error")
    /\ UNCHANGED <<users, requests, orders, meals, favorites, now>>

(* await client.db("admin").command({ ping: 1 }) settles. *)
PingSettles(p, ok) ==
    /\ h[p].op = "initializeDB" /\ h[p].pc = "ping"
    /\ IF ok
       THEN /\ db' = [db EXCEPT !.succeeded = db.succeeded + 1]
            /\ resp' = Response("initializeDB", 0, "returned")
       ELSE /\ db.failed < MaxFailures
            /\ db' = [db EXCEPT !.failed = db.failed + 1]
            /\ resp' = Response("initializeDB", 500, "Server error")
    /\ h' = [h EXCEPT ![p] = Idle]
    /\ UNCHANGED <<users, requests, orders, meals, favorites, now>>

(***************************************************************************)
(* POST /users                                                             *)
(***************************************************************************)
UserBodies == [email : Emails, name : Names]

(* Mutant: role and status are taken from the payload when it has them. *)
NewUser_FromPayload(user) ==
    [name |-> user.name, email |-> user.email,
     role |-> IF "role" \in DOMAIN user THEN user.role ELSE "user",
     status |-> IF "status" \in DOMAIN user THEN user.status ELSE "active",
     chefId |-> NoChefId]

(* newUser = { name, email, photo, role: "user", status: "active", createdAt } *)
NewUser(user) ==
    [name |-> user.name, email |-> user.email, role |-> "user",
     status |-> "active", chefId |-> NoChefId]

(* req.body of POST /users from a client that sends a role and a status  *)
(* of its own choosing.                                                    *)
SpoofedUserBodies ==
    [email : Emails, name : Names, role : {"admin"}, status : {"fraud"}]

(* Mutant: the lookup filters on the wrong payload field. *)
ExistingUser_ByName(coll, user) == FindOne(coll, [email |-> user.name])

(* exists = await users.findOne({ email: user.email }) *)
ExistingUser(coll, user) == FindOne(coll, [email |-> user.email])

(* findOne({email}); "User already exists" when a record is found. *)
CreateUserFind(p, user) ==
    /\ IsIdle(p)
    /\ IF ExistingUser(users, user) # 0
       THEN /\ resp' = Response("createUser", 200, "User already exists")
            /\ h' = h
       ELSE /\ Len(users) + InFlight("createUser") < MaxUsers
            /\ h' = [h EXCEPT ![p] =
                      [op |-> "createUser", pc |-> "insert", arg |-> user]]
            /\ resp' = resp
    /\ UNCHANGED <<favorites, db, users, requests, orders, meals, now>>

(* insertOne(newUser); the driver's result is sent. *)
CreateUserInsert(p) ==
    /\ h[p].op = "createUser" /\ h[p].pc = "insert"
    /\ users' = Append(users, NewUser(h[p].arg))
    /\ resp' = Response("createUser", 200, "inserted")
    /\ h' = [h EXCEPT ![p] = Idle]
    /\ UNCHANGED <<favorites, db, requests, orders, meals, now>>

(***************************************************************************)
(* POST /favorites                                                         *)
(***************************************************************************)
MealIds == {"m1"}

FavoriteBodies == [userEmail : Emails, mealId : MealIds]

(* Mutant: the lookup filters userEmail on the wrong payload field. *)
FavoriteFilter_NoUser(fav) == [userEmail |-> fav.mealId, mealId |-> fav.mealId]

(* The filter { userEmail: fav.userEmail, mealId: fav.mealId }. *)
FavoriteFilter(fav) == [userEmail |-> fav.userEmail, mealId |-> fav.mealId]

(* findOne({userEmail, mealId}); "Already added" when found. *)
AddFavoriteFind(p, fav) ==
    /\ IsIdle(p)
    /\ IF FindOne(favorites, FavoriteFilter(fav)) # 0
       THEN /\ resp' = Response("addFavorite", 200, "Already added")
            /\ h' = h
       ELSE /\ Len(favorites) + InFlight("addFavorite") < MaxFavorites
            /\ h' = [h EXCEPT ![p] =
                      [op |-> "addFavorite", pc |-> "insert", arg |-> fav]]
            /\ resp' = resp
    /\ UNCHANGED <<users, requests, orders, meals, favorites, db, now>>

(* fav.addedTime = new Date(); insertOne(fav); the driver's result is sent. *)
AddFavoriteInsert(p) ==
    /\ h[p].op = "addFavorite" /\ h[p].pc = "insert"
    /\ favorites' = Append(favorites, SetFields(h[p].arg, [addedTime |-> now]))
    /\ resp' = Response("addFavorite", 200, "inserted")
    /\ h' = [h EXCEPT ![p] = Idle]
    /\ UNCHANGED <<users, requests, orders, meals, db, now>>

(***************************************************************************)
(* PATCH /users/fraud/:id                                                  *)
(***************************************************************************)
MarkFraud(id) ==
    /\ users' = UpdateById(users, id, [status |-> "fraud"])
    /\ resp' = Response("markFraud", 200,
                        IF MatchedById(users, id) = 1 THEN "matched" ELSE "unmatched")
    /\ UNCHANGED <<favorites, db, requests, orders, meals, now, h>>

(***************************************************************************)
(* POST /requests                                                          *)
(***************************************************************************)
RequestBodies == [userEmail : Emails, requestType : RequestTypes]

NewRequest(body) ==
    [userEmail |-> body.userEmail, requestType |-> body.requestType,
     requestStatus |-> "pending"]

(* Mutant: the status literal of the lookup is misspelt. *)
PendingFilter_WrongLiteral(body) ==
    [userEmail |-> body.userEmail, requestType |-> body.requestType,
     requestStatus |-> "Pending"]

(* The filter { userEmail, requestType, requestStatus: "pending" }. *)
PendingFilter(body) ==
    [userEmail |-> body.userEmail, requestType |-> body.requestType,
     requestStatus |-> "pending"]

(* findOne({userEmail, requestType, requestStatus: "pending"}); 400 when found. *)
SubmitRequestFind(p, body) ==
    /\ IsIdle(p)
    /\ LET alreadyRequested == FindOne(requests, PendingFilter(body))
       IN  IF alreadyRequested # 0
           THEN /\ resp' = Response("submitRequest", 400, "You already sent this request")
                /\ h' = h
           ELSE /\ Len(requests) + InFlight("submitRequest") < MaxRequests
                /\ h' = [h EXCEPT ![p] =
                          [op |-> "submitRequest", pc |-> "insert", arg |-> body]]
                /\ resp' = resp
    /\ UNCHANGED <<favorites, db, users, requests, orders, meals, now>>

SubmitRequestInsert(p) ==
    /\ h[p].op = "submitRequest" /\ h[p].pc = "insert"
    /\ requests' = Append(requests, NewRequest(h[p].arg))
    /\ resp' = Response("submitRequest", 200, "inserted")
    /\ h' = [h EXCEPT ![p] = Idle]
    /\ UNCHANGED <<favorites, db, users, orders, meals, now>>

(***************************************************************************)
(* PATCH /requests/:id                                                     *)
(***************************************************************************)

(* Mutant: a chefId is generated for every request type. *)
UpdateUserFields_AlwaysChefId(request, r) ==
    [role |-> request.requestType, chefId |-> GenChefId(r)]

(* updateUser: the role, and for a chef request a fresh chefId. *)
UpdateUserFields(request, r) ==
    IF request.requestType = "chef"
    THEN [role |-> request.requestType, chefId |-> GenChefId(r)]
    ELSE [role |-> request.requestType]

(* findOne({_id}); 404 when there is no such request. *)
ResolveRequestFind(p, id, status) ==
    /\ IsIdle(p)
    /\ IF id \notin DOMAIN requests
       THEN /\ resp' = Response("resolveRequest", 404, "Request not found")
            /\ h' = h
       ELSE /\ h' = [h EXCEPT ![p] =
                      [op |-> "resolveRequest",
                       pc |-> IF status = "approved" THEN "user" ELSE "request",
                       arg |-> [id |-> id, status |-> status,
                                userEmail |-> requests[id].userEmail,
                                requestType |-> requests[id].requestType]]]
            /\ resp' = resp
    /\ UNCHANGED <<favorites, db, users, requests, orders, meals, now>>

(* status === "approved": users.updateOne({email}, {$set: updateUser}). *)
ResolveRequestUser(p, r) ==
    /\ h[p].op = "resolveRequest" /\ h[p].pc = "user"
    /\ users' = UpdateOne(users, [email |-> h[p].arg.userEmail],
                          UpdateUserFields(h[p].arg, r))
    /\ h' = [h EXCEPT ![p].pc = "request"]
    /\ UNCHANGED <<favorites, db, requests, orders, meals, now, resp>>

(* Mutant: the request is always recorded as approved. *)
ResolvedFields_AlwaysApproved(status) == [requestStatus |-> "approved"]

(* $set: { requestStatus: status } *)
ResolvedFields(status) == [requestStatus |-> status]

(* requests.updateOne({_id}, {$set: {requestStatus: status}}); success. *)
ResolveRequestWrite(p) ==
    /\ h[p].op = "resolveRequest" /\ h[p].pc = "request"
    /\ requests' = UpdateById(requests, h[p].arg.id, ResolvedFields(h[p].arg.status))
    /\ resp' = Response("resolveRequest", 200, "success")
    /\ h' = [h EXCEPT ![p] = Idle]
    /\ UNCHANGED <<favorites, db, users, orders, meals, now>>

(* Mutant: the catch block reports success. *)
CatchResponse_Success(op) == Response(op, 200, "success")

(* catch (err) { res.status(500).send({ message: "Server error" }) } *)
CatchResponse(op) == Response(op, 500, "Server error")

(* findOne({_id}) rejects: nothing has been written. *)
ResolveRequestFindFails(p) ==
    /\ IsIdle(p)
    /\ resp' = CatchResponse("resolveRequest")
    /\ UNCHANGED <<users, requests, orders, meals, favorites, db, now, h>>

(* users.updateOne rejects: the handler ends in its catch block. *)
ResolveRequestUserFails(p) ==
    /\ h[p].op = "resolveRequest" /\ h[p].pc = "user"
    /\ resp' = CatchResponse("resolveRequest")
    /\ h' = [h EXCEPT ![p] = Idle]
    /\ UNCHANGED <<users, requests, orders, meals, favorites, db, now>>

(* requests.updateOne rejects: the handler ends in its catch block; the   *)
(* write to users, if one was made, is not undone.                         *)
ResolveRequestWriteFails(p) ==
    /\ h[p].op = "resolveRequest" /\ h[p].pc = "request"
    /\ resp' = CatchResponse("resolveRequest")
    /\ h' = [h EXCEPT ![p] = Idle]
    /\ UNCHANGED <<users, requests, orders, meals, favorites, db, now>>

(***************************************************************************)
(* POST /meals (after verifyJWT has set req.tokenEmail)                    *)
(***************************************************************************)

(* req.body of POST /meals: free-form listing fields; a client may also   *)
(* send chefEmail, chefName and chefId of its own choosing.                *)
MealBodies ==
    {[foodName |-> "soup"]} \cup
    {[foodName |-> "soup", chefEmail |-> e, chefName |-> "Mallory",
      chefId |-> GenChefId(1)] : e \in Emails}

(* Mutant: the payload is spread over the chef's fields instead of under them. *)
MealData_PayloadWins(meal, chef, date) ==
    SetFields([chefEmail |-> chef.email, chefName |-> chef.name,
               chefId |-> chef.chefId, createdAt |-> date], meal)

(* mealData = { ...meal, chefEmail, chefName, chefId, createdAt }. *)
MealData(meal, chef, date) ==
    SetFields(meal, [chefEmail |-> chef.email, chefName |-> chef.name,
                     chefId |-> chef.chefId, createdAt |-> date])

(* !chef || chef.role !== "chef" *)
NotAChef(coll, chef) == chef = 0 \/ coll[chef].role # "chef"

(* chef.status === "fraud" *)
FraudChef(coll, chef) == coll[chef].status = "fraud"

(* findOne({email}); 403 unless a chef, 403 when the chef is fraud. *)
CreateMealFind(p, email, meal) ==
    /\ IsIdle(p)
    /\ LET chef == FindOne(users, [email |-> email])
       IN  IF NotAChef(users, chef)
           THEN /\ resp' = Response("createMeal", 403, "Only chefs can create meals")
                /\ h' = h
           ELSE IF FraudChef(users, chef)
           THEN /\ resp' = Response("createMeal", 403, "Fraud chefs cannot create meals")
                /\ h' = h
           ELSE /\ Len(meals) + InFlight("createMeal") < MaxMeals
                /\ h' = [h EXCEPT ![p] =
                          [op |-> "createMeal", pc |-> "insert",
                           arg |-> [meal |-> meal, chef |-> users[chef]]]]
                /\ resp' = resp
    /\ UNCHANGED <<favorites, db, users, requests, orders, meals, now>>

(* insertOne(mealData); { insertedId } is sent. *)
CreateMealInsert(p) ==
    /\ h[p].op = "createMeal" /\ h[p].pc = "insert"
    /\ meals' = Append(meals, MealData(h[p].arg.meal, h[p].arg.chef, now))
    /\ resp' = Response("createMeal", 200, "inserted")
    /\ h' = [h EXCEPT ![p] = Idle]
    /\ UNCHANGED <<favorites, db, users, requests, orders, now>>

(***************************************************************************)
(* GET /meals: the paginated listing.  A query-string value is absent or  *)
(* a string (a sequence of characters); page and rating go through        *)
(* Number(), price and sort are compared with literals.                    *)
(***************************************************************************)
Limit == 10
LowBelow == 20
MediumUpTo == 50

Absent == [present |-> FALSE, text |-> << >>]
Text(str) == [present |-> TRUE, text |-> str]

NaN == [nan |-> TRUE, value |-> 0]
Num(n) == [nan |-> FALSE, value |-> n]

IsDigits(str) ==
    /\ Len(str) > 0
    /\ \A i \in DOMAIN str : \E d \in DOMAIN DigitChars : DigitChars[d] = str[i]

RECURSIVE DigitsToNumber(_)
DigitsToNumber(str) ==
    IF str = << >> THEN 0
    ELSE 10 * DigitsToNumber(SubSeq(str, 1, Len(str) - 1))
         + (CHOOSE d \in DOMAIN DigitChars : DigitChars[d] = str[Len(str)]) - 1

(* Number(v) for undefined, "", a decimal numeral, a negated one, or text. *)
ToNumber(v) ==
    IF ~v.present THEN NaN
    ELSE IF v.text = << >> THEN Num(0)
    ELSE IF IsDigits(v.text) THEN Num(DigitsToNumber(v.text))
    ELSE IF v.text[1] = "-" /\ IsDigits(Tail(v.text))
         THEN Num(0 - DigitsToNumber(Tail(v.text)))
    ELSE NaN

(* page = Number(req.query.page) || 1 *)
PageOf(v) ==
    LET n == ToNumber(v)
    IN  IF n.nan \/ n.value = 0 THEN 1 ELSE n.value

(* Mutant: the first page skips a page. *)
SkipOf_OffByOne(page) == page * Limit

(* skip = (page - 1) * limit *)
SkipOf(page) == (page - 1) * Limit

(* query.rating = { $gte: Number(rating) } when rating is given and not "all". *)
RatingMatches(meal, rating) ==
    IF rating.present /\ rating.text # << >> /\ rating.text # <<"a", "l", "l">>
    THEN ~ToNumber(rating).nan /\ meal.rating >= ToNumber(rating).value
    ELSE TRUE

(* query.price by bracket: low < 20, medium 20..50, high > 50. *)
PriceMatches(meal, price) ==
    CASE price = "low" -> meal.price < LowBelow
      [] price = "medium" -> meal.price >= LowBelow /\ meal.price <= MediumUpTo
      [] price = "high" -> meal.price > MediumUpTo
      [] OTHER -> TRUE

MatchesQuery(meal, q) == RatingMatches(meal, q.rating) /\ PriceMatches(meal, q.price)

(* find(query): the matching documents in natural order. *)
RECURSIVE FilterMeals(_, _)
FilterMeals(coll, q) ==
    IF coll = << >> THEN << >>
    ELSE LET rest == FilterMeals(SubSeq(coll, 1, Len(coll) - 1), q)
             last == coll[Len(coll)]
         IN  IF MatchesQuery(last, q) THEN Append(rest, last) ELSE rest

(* sortQuery: price 1, price -1 or rating -1; {} keeps the natural order. *)
SortKey(meal, sort) ==
    CASE sort = "price-asc" -> meal.price
      [] sort = "price-dsc" -> 0 - meal.price
      [] sort = "rating-dsc" -> 0 - meal.rating
      [] OTHER -> 0

(* .sort(sortQuery); documents with equal keys keep their natural order. *)
RECURSIVE SortMeals(_, _)
SortMeals(coll, sort) ==
    IF coll = << >> THEN << >>
    ELSE LET rest == SortMeals(SubSeq(coll, 1, Len(coll) - 1), sort)
             last == coll[Len(coll)]
             pos == Cardinality({i \in DOMAIN rest :
                        SortKey(rest[i], sort) <= SortKey(last, sort)})
         IN  SubSeq(rest, 1, pos) \o <<last>> \o SubSeq(rest, pos + 1, Len(rest))

(* .skip(skip).limit(limit) *)
SkipLimit(coll, skip, limit) ==
    SubSeq(coll, skip + 1,
           IF skip + limit < Len(coll) THEN skip + limit ELSE Len(coll))

(* Math.ceil(total / limit) *)
CeilDiv(total, limit) == (total + limit - 1) \div limit

PageParams ==
    {Absent, Text(<<"a", "b", "c">>), Text(<<"0">>), Text(<<"1">>),
     Text(<<"2">>), Text(<<"3">>), Text(<<"-", "1">>)}

ListQueries ==
    [page : PageParams, price : {"all", "low"}, rating : {Absent},
     sort : {"", "price-asc"}]

(* find(query).sort().skip().limit().toArray(); the server rejects a      *)
(* negative skip and the catch answers 500.                                *)
ListMealsFind(p, q) ==
    /\ IsIdle(p)
    /\ InFlight("listMeals") < MaxListing
    /\ IF SkipOf(PageOf(q.page)) < 0
       THEN /\ resp' = Response("listMeals", 500, "Server error")
            /\ h' = h
       ELSE /\ h' = [h EXCEPT ![p] =
                      [op |-> "listMeals", pc |-> "count",
                       arg |-> [q |-> q,
                                meals |-> SkipLimit(SortMeals(FilterMeals(meals, q), q.sort),
                                                    SkipOf(PageOf(q.page)), Limit)]]]
            /\ resp' = resp
    /\ UNCHANGED <<users, requests, orders, meals, favorites, db, now>>

(* countDocuments(query); { meals, totalPages } is sent. *)
ListMealsCount(p) ==
    /\ h[p].op = "listMeals" /\ h[p].pc = "count"
    /\ resp' = [op |-> "listMeals", code |-> 200, msg |-> "listed",
                q |-> h[p].arg.q, meals |-> h[p].arg.meals,
                totalPages |-> CeilDiv(Len(FilterMeals(meals, h[p].arg.q)), Limit)]
    /\ h' = [h EXCEPT ![p] = Idle]
    /\ UNCHANGED <<users, requests, orders, meals, favorites, db, now>>

(***************************************************************************)
(* PATCH /meals/:id (after verifyJWT): $set of the request body.           *)
(***************************************************************************)
MealPatches == {[price |-> 60]}

UpdateMeal(id, fields) ==
    /\ meals' = UpdateById(meals, id, fields)
    /\ resp' = Response("updateMeal", 200,
                        IF MatchedById(meals, id) = 1 THEN "matched" ELSE "unmatched")
    /\ UNCHANGED <<users, requests, orders, favorites, db, now, h>>

(***************************************************************************)
(* POST /orders                                                            *)
(***************************************************************************)
NoDate == 0

(* req.body of POST /orders: the client may send paymentStatus and        *)
(* orderStatus of its own choosing.                                        *)
OrderBodies ==
    {[userEmail |-> e, paymentStatus |-> s[1], orderStatus |-> s[2], paidAt |-> NoDate] :
        e \in Emails, s \in {<<"pending", "pending">>, <<"paid", "delivered">>}}

(* Mutant: the payload is spread over the defaults instead of under them. *)
NewOrder_PayloadWins(order, date) ==
    SetFields([orderTime |-> date, paymentStatus |-> "pending",
               orderStatus |-> "pending"], order)

(* order.orderTime, order.paymentStatus, order.orderStatus are overwritten. *)
NewOrder(order, date) ==
    SetFields(order, [orderTime |-> date, paymentStatus |-> "pending",
                      orderStatus |-> "pending"])

(* Mutant: the status is compared with the wrong literal. *)
FraudUser_WrongLiteral(coll, user) == user # 0 /\ coll[user].status = "blocked"

(* user?.status === "fraud" *)
FraudUser(coll, user) == user # 0 /\ coll[user].status = "fraud"

(* findOne({email: order.userEmail}); 403 when user?.status is fraud. *)
CreateOrderFind(p, order) ==
    /\ IsIdle(p)
    /\ LET user == FindOne(users, [email |-> order.userEmail])
       IN  IF FraudUser(users, user)
           THEN /\ resp' = Response("createOrder", 403, "Fraud users cannot place orders")
                /\ h' = h
           ELSE /\ Len(orders) + InFlight("createOrder") < MaxOrders
                /\ h' = [h EXCEPT ![p] =
                          [op |-> "createOrder", pc |-> "insert", arg |-> order]]
                /\ resp' = resp
    /\ UNCHANGED <<favorites, db, users, requests, orders, meals, now>>

(* insertOne(order); the driver's result is sent. *)
CreateOrderInsert(p) ==
    /\ h[p].op = "createOrder" /\ h[p].pc = "insert"
    /\ orders' = Append(orders, NewOrder(h[p].arg, now))
    /\ resp' = Response("createOrder", 200, "inserted")
    /\ h' = [h EXCEPT ![p] = Idle]
    /\ UNCHANGED <<favorites, db, users, requests, meals, now>>

(***************************************************************************)
(* PATCH /orders/status/:id and PATCH /orders/payment/:id                  *)
(***************************************************************************)

(* req.body.orderStatus is not validated: any string. *)
OrderStatuses == {"pending", "accepted", "delivered"}

StatusFields(orderStatus) == [orderStatus |-> orderStatus]

SetFulfillmentStatus(id, orderStatus) ==
    /\ orders' = UpdateById(orders, id, StatusFields(orderStatus))
    /\ resp' = Response("setFulfillmentStatus", 200,
                        IF MatchedById(orders, id) = 1 THEN "matched" ELSE "unmatched")
    /\ UNCHANGED <<favorites, db, users, requests, meals, now, h>>

(* Mutant: the payment patch leaves orderStatus alone. *)
PaidFields_KeepsStatus(date) == [paymentStatus |-> "paid", paidAt |-> date]

(* Mutant: the payment patch does not stamp paidAt. *)
PaidFields_NoPaidAt(date) == [paymentStatus |-> "paid", orderStatus |-> "accepted"]

(* $set: { paymentStatus: "paid", orderStatus: "accepted", paidAt: new Date() } *)
PaidFields(date) ==
    [paymentStatus |-> "paid", orderStatus |-> "accepted", paidAt |-> date]

MarkPaid(id) ==
    /\ orders' = UpdateById(orders, id, PaidFields(now))
    /\ resp' = Response("markPaid", 200,
                        IF MatchedById(orders, id) = 1 THEN "matched" ELSE "unmatched")
    /\ UNCHANGED <<favorites, db, users, requests, meals, now, h>>

(* GET /order/:id: findOne({_id}); 404 when there is no such order. *)
GetOrder(id) ==
    /\ resp' = IF id \notin DOMAIN orders
               THEN Response("getOrder", 404, "Order not found")
               ELSE Response("getOrder", 200, "found")
    /\ UNCHANGED <<users, requests, orders, meals, favorites, db, now, h>>

(* Time passes: new Date() is later in a later handler. *)
Tick ==
    /\ now < MaxTime
    /\ now' = now + 1
    /\ UNCHANGED <<favorites, db, users, requests, orders, meals, h, resp>>

(***************************************************************************)
(* The role-upgrade workflow: sign-in, request submission, resolution.     *)
(***************************************************************************)
NoResponse == Response("none", 0, "")

Init ==
    /\ users = << >>
    /\ requests = << >>
    /\ orders = << >>
    /\ meals = << >>
    /\ favorites = << >>
    /\ db = Established
    /\ now = 1
    /\ h = [p \in Procs |-> Idle]
    /\ resp = NoResponse

Next ==
    \/ \E p \in Procs, user \in UserBodies : CreateUserFind(p, user)
    \/ \E p \in Procs : CreateUserInsert(p)
    \/ \E p \in Procs, body \in RequestBodies : SubmitRequestFind(p, body)
    \/ \E p \in Procs : SubmitRequestInsert(p)
    \/ \E p \in Procs, id \in 1..MaxRequests, status \in ResolveStatuses :
           ResolveRequestFind(p, id, status)
    \/ \E p \in Procs, r \in RandSamples : ResolveRequestUser(p, r)
    \/ \E p \in Procs : ResolveRequestWrite(p)

Spec == Init /\ [][Next]_vars

(***************************************************************************)
(* Every operation that writes the users collection (sign-in, fraud       *)
(* marking, request resolution), over requests the workflow above has     *)
(* produced.                                                               *)
(***************************************************************************)
UsersRequests ==
    {<<NewRequest([userEmail |-> "a@x.com", requestType |-> "chef"]),
       NewRequest([userEmail |-> e, requestType |-> t])>> :
        e \in Emails, t \in RequestTypes}

InitUsers ==
    /\ users = << >>
    /\ requests \in UsersRequests
    /\ orders = << >>
    /\ meals = << >>
    /\ favorites = << >>
    /\ db = Established
    /\ now = 1
    /\ h = [p \in Procs |-> Idle]
    /\ resp = NoResponse

NextUsers ==
    \/ \E p \in Procs, user \in UserBodies : CreateUserFind(p, user)
    \/ \E p \in Procs : CreateUserInsert(p)
    \/ \E id \in 1..MaxUsers : MarkFraud(id)
    \/ \E p \in Procs, id \in 1..MaxRequests, status \in ResolveStatuses :
           ResolveRequestFind(p, id, status)
    \/ \E p \in Procs, r \in RandSamples : ResolveRequestUser(p, r)
    \/ \E p \in Procs : ResolveRequestWrite(p)

SpecUsers == InitUsers /\ [][NextUsers]_vars

(***************************************************************************)
(* User collections the workflow above produces: a is an approved chef,   *)
(* b a plain user or absent.                                               *)
(***************************************************************************)
ChefA ==
    SetFields(NewUser([email |-> "a@x.com", name |-> "Ann"]),
              UpdateUserFields([requestType |-> "chef"], 0))

UserB == NewUser([email |-> "b@x.com", name |-> "Ann"])

MarketUsers == {<<ChefA>>, <<ChefA, UserB>>}

InitMarket ==
    /\ users \in MarketUsers
    /\ requests = << >>
    /\ orders = << >>
    /\ meals = << >>
    /\ favorites = << >>
    /\ db = Established
    /\ now = 1
    /\ h = [p \in Procs |-> Idle]
    /\ resp = NoResponse

(***************************************************************************)
(* The order lifecycle: creation, fulfillment status, payment.             *)
(***************************************************************************)
NextMarket ==
    \/ \E p \in Procs, order \in OrderBodies : CreateOrderFind(p, order)
    \/ \E p \in Procs : CreateOrderInsert(p)
    \/ \E id \in 1..MaxOrders, orderStatus \in OrderStatuses :
           SetFulfillmentStatus(id, orderStatus)
    \/ \E id \in 1..MaxOrders : MarkPaid(id)
    \/ Tick

SpecMarket == InitMarket /\ [][NextMarket]_vars

(***************************************************************************)
(* Creating meals and orders while users are being marked fraud.           *)
(***************************************************************************)
NextFraud ==
    \/ \E id \in 1..MaxUsers : MarkFraud(id)
    \/ \E p \in Procs, email \in Emails, meal \in MealBodies :
           CreateMealFind(p, email, meal)
    \/ \E p \in Procs : CreateMealInsert(p)
    \/ \E p \in Procs, order \in OrderBodies : CreateOrderFind(p, order)
    \/ \E p \in Procs : CreateOrderInsert(p)

SpecFraud == InitMarket /\ [][NextFraud]_vars

(***************************************************************************)
(* Creating meals while role requests are resolved: a's chef request has  *)
(* been approved and a's admin request is pending.                         *)
(***************************************************************************)
ListingRequests ==
    <<[NewRequest([userEmail |-> "a@x.com", requestType |-> "chef"])
          EXCEPT !.requestStatus = "approved"],
      NewRequest([userEmail |-> "a@x.com", requestType |-> "admin"])>>

InitListing ==
    /\ users \in MarketUsers
    /\ requests = ListingRequests
    /\ orders = << >>
    /\ meals = << >>
    /\ favorites = << >>
    /\ db = Established
    /\ now = 1
    /\ h = [p \in Procs |-> Idle]
    /\ resp = NoResponse

NextListing ==
    \/ \E p \in Procs, email \in Emails, meal \in MealBodies :
           CreateMealFind(p, email, meal)
    \/ \E p \in Procs : CreateMealInsert(p)
    \/ \E p \in Procs, id \in 1..MaxRequests, status \in ResolveStatuses :
           ResolveRequestFind(p, id, status)
    \/ \E p \in Procs, r \in RandSamples : ResolveRequestUser(p, r)
    \/ \E p \in Procs : ResolveRequestWrite(p)

SpecListing == InitListing /\ [][NextListing]_vars

(***************************************************************************)
(* Properties.                                                             *)
(***************************************************************************)

(* The status of the record findOne({email}) returns; "none" without one. *)
StoredStatus(email) ==
    IF \E i \in DOMAIN users : users[i].email = email
    THEN users[CHOOSE i \in DOMAIN users :
                   /\ users[i].email = email
                   /\ \A j \in DOMAIN users : users[j].email = email => i <= j].status
    ELSE "none"

AllIdle == \A p \in Procs : h[p] = Idle

(* C1 as stated: a meal or an order is never persisted while the stored   *)
(* status of its chef / its user is fraud, markFraud interleaved between  *)
(* the handler's status read and its insert included.                      *)
C1_FraudNeverCreates ==
    [][/\ Len(orders') > Len(orders) =>
            StoredStatus(orders'[Len(orders')].userEmail) # "fraud"
       /\ Len(meals') > Len(meals) =>
            StoredStatus(meals'[Len(meals')].chefEmail) # "fraud"]_vars

(* C1 amended: a createOrder / createMeal whose status read returns fraud *)
(* answers 403, persists nothing and leaves no handler suspended that     *)
(* could insert later; documents are persisted only by the insert step of *)
(* a handler that passed its read.                                         *)
C1_FraudReadIsBlocked ==
    [][/\ \A p \in Procs, order \in OrderBodies :
            (StoredStatus(order.userEmail) = "fraud" /\ CreateOrderFind(p, order))
            => /\ resp' = Response("createOrder", 403, "Fraud users cannot place orders")
               /\ orders' = orders /\ meals' = meals /\ h' = h
       /\ \A p \in Procs, email \in Emails, meal \in MealBodies :
            (StoredStatus(email) = "fraud" /\ CreateMealFind(p, email, meal))
            => /\ resp'.op = "createMeal" /\ resp'.code = 403
               /\ orders' = orders /\ meals' = meals /\ h' = h
       /\ Len(orders') > Len(orders) =>
            \E p \in Procs : h[p].op = "createOrder" /\ h'[p] = Idle
       /\ Len(meals') > Len(meals) =>
            \E p \in Procs : h[p].op = "createMeal" /\ h'[p] = Idle]_vars

(* A fraud user's order has just been refused and nothing is persisted. *)
C1_Witness ==
    /\ resp = Response("createOrder", 403, "Fraud users cannot place orders")
    /\ \E e \in Emails : StoredStatus(e) = "fraud"
    /\ orders = << >> /\ meals = << >> /\ AllIdle

(* C6: every order is created with paymentStatus pending, no order is     *)
(* ever removed, and an order whose paymentStatus is paid stays paid      *)
(* across every step of createOrder, setFulfillmentStatus and markPaid.    *)
C6_PaymentStatusMonotonic ==
    [][/\ DOMAIN orders \subseteq DOMAIN orders'
       /\ \A i \in DOMAIN orders :
            orders[i].paymentStatus = "paid" => orders'[i].paymentStatus = "paid"
       /\ \A i \in DOMAIN orders' \ DOMAIN orders :
            orders'[i].paymentStatus = "pending"]_vars

(* A paid order whose fulfillment status was patched after the payment,   *)
(* beside a later order still pending.                                     *)
C6_Witness ==
    /\ Len(orders) = 2
    /\ orders[1].paymentStatus = "paid" /\ orders[1].orderStatus = "delivered"
    /\ orders[2].paymentStatus = "pending"

(* C7: markPaid on an existing order leaves it paid, accepted and with a  *)
(* paidAt, whatever its orderStatus and paymentStatus were; its other     *)
(* fields, every other order and every other collection are unchanged.     *)
C7_MarkPaidSetsThreeFields ==
    [][\A id \in DOMAIN orders :
         MarkPaid(id) =>
            /\ orders'[id].paymentStatus = "paid"
            /\ orders'[id].orderStatus = "accepted"
            /\ orders'[id].paidAt # NoDate
            /\ orders'[id].userEmail = orders[id].userEmail
            /\ orders'[id].orderTime = orders[id].orderTime
            /\ DOMAIN orders'[id] = DOMAIN orders[id]
            /\ DOMAIN orders' = DOMAIN orders
            /\ \A j \in DOMAIN orders : j # id => orders'[j] = orders[j]
            /\ UNCHANGED <<users, requests, meals>>]_vars

(* markPaid has just matched an order, which is paid and accepted. *)
C7_Witness ==
    /\ resp = Response("markPaid", 200, "matched")
    /\ \E i \in DOMAIN orders :
          /\ orders[i].paymentStatus = "paid"
          /\ orders[i].orderStatus = "accepted"
          /\ orders[i].paidAt = now

(* The state markPaid leaves an order in. *)
JustPaid(order) ==
    order.paymentStatus = "paid" /\ order.orderStatus = "accepted"

(* C8 as stated: markPaid applied to an order that markPaid has already   *)
(* been applied to leaves the order, paidAt included, as it was.           *)
C8_MarkPaidIdempotent ==
    [][\A id \in DOMAIN orders :
         (MarkPaid(id) /\ JustPaid(orders[id])) => orders'[id] = orders[id]]_vars

(* C8 amended: the second markPaid leaves paymentStatus, orderStatus and  *)
(* every other field as the first did, but overwrites paidAt with the     *)
(* time of the later call.                                                 *)
C8_MarkPaidIdempotentButPaidAt ==
    [][\A id \in DOMAIN orders :
         (MarkPaid(id) /\ JustPaid(orders[id])) =>
            /\ orders[id].paidAt # NoDate
            /\ orders'[id] = [orders[id] EXCEPT !.paidAt = now]]_vars

(* An order paid later than it could first have been. *)
C8_Witness ==
    /\ resp = Response("markPaid", 200, "matched")
    /\ \E i \in DOMAIN orders :
          JustPaid(orders[i]) /\ orders[i].paidAt > orders[i].orderTime

(* Position of the first user record with this email, 0 without one. *)
FirstUser(coll, email) ==
    IF \E i \in DOMAIN coll : coll[i].email = email
    THEN CHOOSE i \in DOMAIN coll :
             coll[i].email = email /\ \A j \in DOMAIN coll : coll[j].email = email => i <= j
    ELSE 0

HasPending(body) ==
    \E i \in DOMAIN requests :
        /\ requests[i].userEmail = body.userEmail
        /\ requests[i].requestType = body.requestType
        /\ requests[i].requestStatus = "pending"

(* The handler in slot p goes from one position to the next in this step. *)
Moves(p, op, from, to) ==
    /\ h[p].op = op /\ h[p].pc = from
    /\ h'[p].pc = to

(* The handler in slot p is admitted past its lookup in this step. *)
Admitted(p, op) == h[p] = Idle /\ h'[p].op = op

(* C2 as stated: at most one pending request per (userEmail, requestType). *)
C2_AtMostOnePending ==
    \A e \in Emails, t \in RequestTypes :
        Cardinality({i \in DOMAIN requests :
                        /\ requests[i].userEmail = e
                        /\ requests[i].requestType = t
                        /\ requests[i].requestStatus = "pending"}) <= 1

(* C2 amended: a submitRequest whose lookup finds a pending request for   *)
(* the pair answers 400, creates nothing and leaves no handler suspended; *)
(* a handler is admitted to insert only when its lookup found none, and   *)
(* requests are created, pending, only by such a handler's insert.         *)
C2_PendingLookupRejects ==
    [][/\ \A p \in Procs, body \in RequestBodies :
            (HasPending(body) /\ SubmitRequestFind(p, body))
            => /\ resp' = Response("submitRequest", 400, "You already sent this request")
               /\ requests' = requests /\ h' = h
       /\ \A p \in Procs :
            Admitted(p, "submitRequest") => ~HasPending(h'[p].arg)
       /\ Len(requests') > Len(requests) =>
            \E p \in Procs :
               /\ Moves(p, "submitRequest", "insert", "idle")
               /\ requests' = Append(requests,
                     [userEmail |-> h[p].arg.userEmail,
                      requestType |-> h[p].arg.requestType,
                      requestStatus |-> "pending"])]_vars

(* A duplicate has just been refused; the pair has one pending request. *)
C2_Witness ==
    /\ resp = Response("submitRequest", 400, "You already sent this request")
    /\ \E body \in RequestBodies : HasPending(body)
    /\ C2_AtMostOnePending
    /\ AllIdle

Digits == {DigitChars[d] : d \in DOMAIN DigitChars}

DigitValue(c) == (CHOOSE d \in DOMAIN DigitChars : DigitChars[d] = c) - 1

(* "chef-" followed by four digits that read as an integer in [1000,9999]. *)
IsChefId(str) ==
    /\ Len(str) = 9
    /\ SubSeq(str, 1, 5) = <<"c", "h", "e", "f", "-">>
    /\ \A k \in 6..9 : str[k] \in Digits
    /\ LET n == 1000 * DigitValue(str[6]) + 100 * DigitValue(str[7])
                + 10 * DigitValue(str[8]) + DigitValue(str[9])
       IN  n >= 1000 /\ n <= 9999

(* C3 as stated: when resolveRequest(id, approved) on a chef-type request *)
(* answers success, the User with the request's userEmail has role chef   *)
(* and a chefId "chef-" + 4 digits.                                        *)
C3_SuccessMeansChef ==
    [][\A p \in Procs :
         (/\ Moves(p, "resolveRequest", "request", "idle")
          /\ h[p].arg.status = "approved" /\ h[p].arg.requestType = "chef"
          /\ resp' = Response("resolveRequest", 200, "success"))
         => /\ \E i \in DOMAIN users' : users'[i].email = h[p].arg.userEmail
            /\ \A i \in DOMAIN users' :
                  users'[i].email = h[p].arg.userEmail
                  => users'[i].role = "chef" /\ IsChefId(users'[i].chefId)]_vars

(* C3 amended: the user update of resolveRequest(id, approved) on a       *)
(* chef-type request gives the first User record with the request's       *)
(* userEmail, when there is one, role chef and a chefId "chef-" + 4       *)
(* digits in [1000,9999], and changes nothing else; without such a record *)
(* it changes nothing.  Every chefId ever stored has that form.            *)
C3_ApprovalWritesChefId ==
    [][/\ \A p \in Procs :
            (Moves(p, "resolveRequest", "user", "request") /\ h[p].arg.requestType = "chef")
            => LET i == FirstUser(users, h[p].arg.userEmail)
               IN  IF i = 0 THEN users' = users
                   ELSE /\ users'[i].role = "chef"
                        /\ IsChefId(users'[i].chefId)
                        /\ users' = [users EXCEPT ![i].role = "chef",
                                                  ![i].chefId = users'[i].chefId]
       /\ \A i \in DOMAIN users' :
            users'[i].chefId # NoChefId => IsChefId(users'[i].chefId)]_vars

(* A chef request has been approved and answered; the user is a chef with *)
(* the largest chefId.                                                     *)
C3_Witness ==
    /\ resp = Response("resolveRequest", 200, "success")
    /\ AllIdle
    /\ \E i \in DOMAIN users, j \in DOMAIN requests :
          /\ users[i].role = "chef"
          /\ users[i].chefId = <<"c", "h", "e", "f", "-", "9", "9", "9", "9">>
          /\ requests[j].userEmail = users[i].email
          /\ requests[j].requestType = "chef"
          /\ requests[j].requestStatus = "approved"

(* C4 as stated: a chefId, once assigned, never changes, and is assigned  *)
(* only by the user update of an approved chef-type request.               *)
C4_ChefIdSetOnce ==
    [][\A i \in DOMAIN users :
         users[i].chefId # NoChefId
         => i \in DOMAIN users' /\ users'[i].chefId = users[i].chefId]_vars

(* C4 amended: a record is created without chefId; a chefId is written    *)
(* only by the user update of resolveRequest(approved) on a chef-type     *)
(* request of that user's email, which writes a well-formed one (again on *)
(* every further approval); once assigned a chefId is never removed.       *)
C4_ChefIdOnlyByChefApproval ==
    [][/\ DOMAIN users \subseteq DOMAIN users'
       /\ \A i \in DOMAIN users' \ DOMAIN users : users'[i].chefId = NoChefId
       /\ \A i \in DOMAIN users :
            /\ users[i].chefId # NoChefId => users'[i].chefId # NoChefId
            /\ users'[i].chefId # users[i].chefId
               => /\ IsChefId(users'[i].chefId)
                  /\ \E p \in Procs :
                        /\ Moves(p, "resolveRequest", "user", "request")
                        /\ h[p].arg.status = "approved"
                        /\ h[p].arg.requestType = "chef"
                        /\ h[p].arg.userEmail = users[i].email]_vars

(* A former chef, now admin and marked fraud, still carries the chefId. *)
C4_Witness ==
    \E i \in DOMAIN users :
        /\ users[i].chefId # NoChefId
        /\ users[i].role = "admin"
        /\ users[i].status = "fraud"

(* C5 as stated: a request that has left pending is never written again,  *)
(* and no user update is made for it again.                                *)
C5_ResolvedOnce ==
    [][/\ \A i \in DOMAIN requests :
            requests[i].requestStatus # "pending"
            => requests'[i].requestStatus = requests[i].requestStatus
       /\ \A p \in Procs :
            Moves(p, "resolveRequest", "user", "request")
            => requests[h[p].arg.id].requestStatus = "pending"]_vars

(* C5 amended: resolveRequest does not look at the current status: its    *)
(* request write records the supplied status on that request, whatever    *)
(* the request's status is, changes no other request and answers success. *)
C5_ResolveRecordsSuppliedStatus ==
    [][\A p \in Procs :
         Moves(p, "resolveRequest", "request", "idle")
         => /\ h[p].arg.id \in DOMAIN requests
            /\ requests' = [requests EXCEPT
                              ![h[p].arg.id].requestStatus = h[p].arg.status]
            /\ resp' = Response("resolveRequest", 200, "success")
            /\ users' = users]_vars

(* The only chef request of a user who is a chef is rejected: it was      *)
(* approved, and resolved again.                                           *)
C5_Witness ==
    /\ AllIdle
    /\ Len(requests) = 1
    /\ requests[1].requestType = "chef" /\ requests[1].requestStatus = "rejected"
    /\ \E i \in DOMAIN users :
          users[i].email = requests[1].userEmail /\ users[i].role = "chef"

(* C9 as stated: at most one User record per email. *)
C9_EmailUnique ==
    \A e \in Emails : Cardinality({i \in DOMAIN users : users[i].email = e}) <= 1

(* C9 amended: a createUser whose lookup finds a record with the email    *)
(* answers "User already exists", changes no record and leaves no handler *)
(* suspended; a handler is admitted to insert only when its lookup found  *)
(* none; an insert appends a record with role user, status active and no  *)
(* chefId and leaves the existing records as they are.                     *)
C9_ExistingUserIsNoOp ==
    [][/\ \A p \in Procs, user \in UserBodies :
            (FirstUser(users, user.email) # 0 /\ CreateUserFind(p, user))
            => /\ resp' = Response("createUser", 200, "User already exists")
               /\ users' = users /\ h' = h
       /\ \A p \in Procs :
            Admitted(p, "createUser") => FirstUser(users, h'[p].arg.email) = 0
       /\ Len(users') > Len(users) =>
            \E p \in Procs :
               /\ Moves(p, "createUser", "insert", "idle")
               /\ users' = Append(users,
                     [name |-> h[p].arg.name, email |-> h[p].arg.email,
                      role |-> "user", status |-> "active", chefId |-> NoChefId])]_vars

(* A second sign-in of a fraud-marked chef has just been answered. *)
C9_Witness ==
    /\ resp = Response("createUser", 200, "User already exists")
    /\ AllIdle
    /\ C9_EmailUnique
    /\ \E i \in DOMAIN users :
          users[i].role = "chef" /\ users[i].status = "fraud"

(* C10: a createMeal whose caller has no User record, or one whose role   *)
(* is not chef, answers 403 "Only chefs can create meals" and persists    *)
(* nothing; a handler is admitted to insert only with the caller's stored *)
(* record, whose role is chef; the meal it persists is the payload with   *)
(* chefEmail, chefName and chefId replaced by those of that record.        *)
C10_OnlyChefsCreateMeals ==
    [][/\ \A p \in Procs, email \in Emails, meal \in MealBodies :
            (/\ \/ FirstUser(users, email) = 0
                \/ users[FirstUser(users, email)].role # "chef"
             /\ CreateMealFind(p, email, meal))
            => /\ resp' = Response("createMeal", 403, "Only chefs can create meals")
               /\ meals' = meals /\ h' = h
       /\ \A p \in Procs :
            Admitted(p, "createMeal")
            => LET i == FirstUser(users, h'[p].arg.chef.email)
               IN  i # 0 /\ users[i] = h'[p].arg.chef /\ users[i].role = "chef"
       /\ Len(meals') > Len(meals) =>
            \E p \in Procs :
               /\ Moves(p, "createMeal", "insert", "idle")
               /\ Len(meals') = Len(meals) + 1
               /\ SubSeq(meals', 1, Len(meals)) = meals
               /\ LET m == meals'[Len(meals')]
                  IN  /\ m.chefEmail = h[p].arg.chef.email
                      /\ m.chefName = h[p].arg.chef.name
                      /\ m.chefId = h[p].arg.chef.chefId
                      /\ m.foodName = h[p].arg.meal.foodName]_vars

(* A meal of chef a has been persisted with a's regenerated chefId. *)
C10_Witness ==
    /\ resp = Response("createMeal", 200, "inserted")
    /\ Len(meals) = 1
    /\ meals[1].chefEmail = "a@x.com"
    /\ meals[1].chefName = "Ann"
    /\ meals[1].chefId = <<"c", "h", "e", "f", "-", "9", "9", "9", "9">>

(***************************************************************************)
(* The create-if-absent handlers: sign-in, request submission, favorites.  *)
(***************************************************************************)
NextConflict ==
    \/ \E p \in Procs, user \in UserBodies : CreateUserFind(p, user)
    \/ \E p \in Procs : CreateUserInsert(p)
    \/ \E p \in Procs, body \in RequestBodies : SubmitRequestFind(p, body)
    \/ \E p \in Procs : SubmitRequestInsert(p)
    \/ \E p \in Procs, fav \in FavoriteBodies : AddFavoriteFind(p, fav)
    \/ \E p \in Procs : AddFavoriteInsert(p)

SpecConflict == Init /\ [][NextConflict]_vars

HasFavorite(fav) ==
    \E i \in DOMAIN favorites :
       favorites[i].userEmail = fav.userEmail /\ favorites[i].mealId = fav.mealId

(* The conflict branch wrote nothing and suspended no handler. *)
ConflictLeavesStore ==
    /\ users' = users /\ requests' = requests /\ favorites' = favorites
    /\ h' = h

(* C11 as stated: a duplicate user, a duplicate pending request and a     *)
(* duplicate favorite are each answered with HTTP 200 and leave the store *)
(* unchanged.                                                              *)
C11_ConflictIsSoftSuccess ==
    [][/\ \A p \in Procs, user \in UserBodies :
            (FirstUser(users, user.email) # 0 /\ CreateUserFind(p, user))
            => resp'.code = 200 /\ ConflictLeavesStore
       /\ \A p \in Procs, body \in RequestBodies :
            (HasPending(body) /\ SubmitRequestFind(p, body))
            => resp'.code = 200 /\ ConflictLeavesStore
       /\ \A p \in Procs, fav \in FavoriteBodies :
            (HasFavorite(fav) /\ AddFavoriteFind(p, fav))
            => resp'.code = 200 /\ ConflictLeavesStore]_vars

(* C11 amended: a duplicate user answers 200 "User already exists" and a  *)
(* duplicate favorite 200 "Already added"; a duplicate pending request is *)
(* answered 400 "You already sent this request"; each leaves the store    *)
(* unchanged.                                                              *)
C11_ConflictResponses ==
    [][/\ \A p \in Procs, user \in UserBodies :
            (FirstUser(users, user.email) # 0 /\ CreateUserFind(p, user))
            => /\ resp' = Response("createUser", 200, "User already exists")
               /\ ConflictLeavesStore
       /\ \A p \in Procs, body \in RequestBodies :
            (HasPending(body) /\ SubmitRequestFind(p, body))
            => /\ resp' = Response("submitRequest", 400, "You already sent this request")
               /\ ConflictLeavesStore
       /\ \A p \in Procs, fav \in FavoriteBodies :
            (HasFavorite(fav) /\ AddFavoriteFind(p, fav))
            => /\ resp' = Response("addFavorite", 200, "Already added")
               /\ ConflictLeavesStore]_vars

(* A duplicate favorite has just been answered, beside an existing user   *)
(* and a pending request.                                                  *)
C11_Witness ==
    /\ resp = Response("addFavorite", 200, "Already added")
    /\ Len(favorites) = 1 /\ Len(users) = 1 /\ Len(requests) = 1
    /\ AllIdle

(***************************************************************************)
(* The operations that name a document by its _id, over a store with one  *)
(* request and one order, so that the second _id names nothing.            *)
(***************************************************************************)
InitById ==
    /\ users \in MarketUsers
    /\ requests = <<NewRequest([userEmail |-> "b@x.com", requestType |-> "chef"])>>
    /\ orders = <<NewOrder([userEmail |-> "b@x.com", paymentStatus |-> "pending",
                            orderStatus |-> "pending", paidAt |-> NoDate], 1)>>
    /\ meals = << >>
    /\ favorites = << >>
    /\ db = Established
    /\ now = 1
    /\ h = [p \in Procs |-> Idle]
    /\ resp = NoResponse

NextById ==
    \/ \E id \in 1..MaxUsers : MarkFraud(id)
    \/ \E p \in Procs, id \in 1..MaxRequests, status \in ResolveStatuses :
           ResolveRequestFind(p, id, status)
    \/ \E p \in Procs, r \in RandSamples : ResolveRequestUser(p, r)
    \/ \E p \in Procs : ResolveRequestWrite(p)
    \/ \E id \in 1..MaxOrders, orderStatus \in OrderStatuses :
           SetFulfillmentStatus(id, orderStatus)
    \/ \E id \in 1..MaxOrders : MarkPaid(id)
    \/ \E id \in 1..MaxOrders : GetOrder(id)

SpecById == InitById /\ [][NextById]_vars

(* The response is a 404 and no collection has changed. *)
NotFoundOutcome ==
    /\ resp'.code = 404
    /\ users' = users /\ requests' = requests /\ orders' = orders

(* C12: resolveRequest on an unknown request id, markPaid and              *)
(* setFulfillmentStatus on an unknown order id, markFraud on an unknown    *)
(* user id and fetching an unknown order each answer 404 and change        *)
(* nothing.                                                                *)
C12_AbsentAnswers404 ==
    [][/\ \A p \in Procs, id \in 1..MaxRequests, status \in ResolveStatuses :
            (id \notin DOMAIN requests /\ ResolveRequestFind(p, id, status))
            => NotFoundOutcome
       /\ \A id \in 1..MaxOrders :
            (id \notin DOMAIN orders /\ GetOrder(id)) => NotFoundOutcome
       /\ \A id \in 1..MaxOrders :
            (id \notin DOMAIN orders /\ MarkPaid(id)) => NotFoundOutcome
       /\ \A id \in 1..MaxOrders, orderStatus \in OrderStatuses :
            (id \notin DOMAIN orders /\ SetFulfillmentStatus(id, orderStatus))
            => NotFoundOutcome
       /\ \A id \in 1..MaxUsers :
            (id \notin DOMAIN users /\ MarkFraud(id)) => NotFoundOutcome]_vars

(* C13: createMeal answers 404 when the caller's email has no User record *)
(* and 403 when the stored record's role is not chef or its status is     *)
(* fraud.                                                                  *)
C13_NoUserIs404 ==
    [][\A p \in Procs, email \in Emails, meal \in MealBodies :
         CreateMealFind(p, email, meal) =>
            /\ FirstUser(users, email) = 0 => resp'.code = 404
            /\ (/\ FirstUser(users, email) # 0
                /\ \/ users[FirstUser(users, email)].role # "chef"
                   \/ users[FirstUser(users, email)].status = "fraud")
               => resp'.code = 403]_vars

(***************************************************************************)
(* The listing while meals are being patched: the store holds up to       *)
(* MaxListed meals of chef a, every seventh priced 60 and the others 15   *)
(* and 10 in turn, with ratings 3..5.                                      *)
(***************************************************************************)
ListedMeal(i) ==
    SetFields(MealData([foodName |-> "soup",
                        price |-> IF i % 7 = 0 THEN 60
                                  ELSE IF i % 2 = 1 THEN 15 ELSE 10,
                        rating |-> 3 + (i % 3)],
                       ChefA, 1),
              [id |-> i])

(* The meals of PATCH /meals/:id requests. *)
PatchedIds == {1}

InitPages ==
    /\ users = <<ChefA>>
    /\ requests = << >>
    /\ orders = << >>
    /\ meals \in {[i \in 1..n |-> ListedMeal(i)] : n \in 0..MaxListed}
    /\ favorites = << >>
    /\ db = Established
    /\ now = 1
    /\ h = [p \in Procs |-> Idle]
    /\ resp = NoResponse

NextPages ==
    \/ \E p \in Procs, q \in ListQueries : ListMealsFind(p, q)
    \/ \E p \in Procs : ListMealsCount(p)
    \/ \E id \in PatchedIds, fields \in MealPatches : UpdateMeal(id, fields)

SpecPages == InitPages /\ [][NextPages]_vars

(* The page a query asks for: 1 for a missing, zero or non-numeric page. *)
RequestedPage(page) ==
    CASE page = Text(<<"2">>) -> 2
      [] page = Text(<<"3">>) -> 3
      [] page = Text(<<"-", "1">>) -> 0 - 1
      [] OTHER -> 1

(* The filtered and sorted set of a query over the stored meals. *)
Listed(q) == SortMeals(FilterMeals(meals, q), q.sort)

(* t = ceil(n / 10): the least t with 10 t >= n. *)
IsCeilOfTenth(t, n) == t * 10 >= n /\ (t - 1) * 10 < n

(* page holds exactly items [10(k-1), 10k) of set. *)
IsPageOf(page, set, k) ==
    /\ Len(page) <= 10
    /\ Len(page) = IF Len(set) <= 10 * (k - 1) THEN 0
                   ELSE IF Len(set) >= 10 * k THEN 10
                   ELSE Len(set) - 10 * (k - 1)
    /\ \A j \in DOMAIN page : page[j] = set[10 * (k - 1) + j]

(* Only matching meals are listed, cheapest first under price-asc. *)
FilteredAndSorted(page, q) ==
    /\ q.price = "low" => \A j \in DOMAIN page : page[j].price < 20
    /\ q.sort = "price-asc" =>
          \A i, j \in DOMAIN page : i < j => page[i].price <= page[j].price

(* C14 as stated: in every response to a page k >= 1, totalPages is       *)
(* ceil(N/10) for the N meals matching the filter, the meals are exactly  *)
(* items [10(k-1), 10k) of the filtered and sorted set, and a page        *)
(* k > totalPages is empty.                                                *)
C14_ResponseIsPageOfSet ==
    [][\A p \in Procs :
         Moves(p, "listMeals", "count", "idle") =>
            LET q == h[p].arg.q
                k == RequestedPage(q.page)
            IN  /\ IsCeilOfTenth(resp'.totalPages, Len(FilterMeals(meals, q)))
                /\ IsPageOf(resp'.meals, Listed(q), k)
                /\ k > resp'.totalPages => resp'.meals = << >>]_vars

(* C14 amended: for a page k >= 1 (a missing, zero or non-numeric page    *)
(* being 1) the find call returns exactly items [10(k-1), 10k) of the     *)
(* filtered and sorted set as it is at that call, at most 10 meals and    *)
(* none when k > ceil(N/10) for the N then matching; the response carries *)
(* those meals and totalPages = ceil(N'/10) for the N' matching at the    *)
(* later count call; a negative page is answered 500.                      *)
C14_PageOfSetAtFind ==
    [][/\ \A p \in Procs, q \in ListQueries :
            (/\ Admitted(p, "listMeals") /\ h'[p].arg.q = q
             /\ ListMealsFind(p, q))
            => LET k == RequestedPage(q.page)
                   set == Listed(q)
                   n == Len(set)
               IN  /\ k >= 1
                   /\ IsPageOf(h'[p].arg.meals, set, k)
                   /\ FilteredAndSorted(h'[p].arg.meals, q)
                   /\ \A t \in 0..MaxListed :
                         (IsCeilOfTenth(t, n) /\ k > t) => h'[p].arg.meals = << >>
       /\ \A p \in Procs, q \in ListQueries :
            (h' = h /\ resp'.op = "listMeals" /\ ListMealsFind(p, q))
            => RequestedPage(q.page) < 1 /\ resp'.code = 500
       /\ \A p \in Procs, q \in ListQueries :
            (RequestedPage(q.page) < 1 /\ ListMealsFind(p, q))
            => h' = h /\ resp'.code = 500
       /\ \A p \in Procs :
            Moves(p, "listMeals", "count", "idle") =>
               /\ resp'.code = 200
               /\ resp'.meals = h[p].arg.meals
               /\ IsCeilOfTenth(resp'.totalPages, Len(FilterMeals(meals, h[p].arg.q)))
               /\ meals' = meals]_vars

(* The third page of 21 cheap meals, cheapest first, has just been sent:  *)
(* one meal, three pages.                                                  *)
C14_Witness ==
    /\ resp.op = "listMeals" /\ resp.code = 200
    /\ resp.q = [page |-> Text(<<"3">>), price |-> "low", rating |-> Absent,
                 sort |-> "price-asc"]
    /\ resp.totalPages = 3
    /\ Len(resp.meals) = 1
    /\ Len(FilterMeals(meals, resp.q)) = 21

(***************************************************************************)
(* Request resolution with store calls that may reject: b has asked to    *)
(* become a chef, and a (a chef) may have asked to become an admin.        *)
(***************************************************************************)
InitFailure ==
    /\ users = <<ChefA, UserB>>
    /\ requests \in
          {<<NewRequest([userEmail |-> "b@x.com", requestType |-> "chef"])>>,
           <<NewRequest([userEmail |-> "b@x.com", requestType |-> "chef"]),
             NewRequest([userEmail |-> "a@x.com", requestType |-> "admin"])>>}
    /\ orders = << >>
    /\ meals = << >>
    /\ favorites = << >>
    /\ db = Established
    /\ now = 1
    /\ h = [p \in Procs |-> Idle]
    /\ resp = NoResponse

NextFailure ==
    \/ \E p \in Procs, id \in 1..MaxRequests, status \in ResolveStatuses :
           ResolveRequestFind(p, id, status)
    \/ \E p \in Procs : ResolveRequestFindFails(p)
    \/ \E p \in Procs, r \in RandSamples : ResolveRequestUser(p, r)
    \/ \E p \in Procs : ResolveRequestUserFails(p)
    \/ \E p \in Procs : ResolveRequestWrite(p)
    \/ \E p \in Procs : ResolveRequestWriteFails(p)

SpecFailure == InitFailure /\ [][NextFailure]_vars

(* C15: the step that ends a resolveRequest after its write to the       *)
(* request either answers success, with the request's requestStatus the   *)
(* supplied status, or answers 500 with requests as they were; in both    *)
(* cases users, the role and chefId the handler may have written          *)
(* included, stay as they are and the handler does not run again; users   *)
(* changes only in the user-write step of a handler whose status is       *)
(* approved, and a handler with any other status skips that step.          *)
C15_NoCompensation ==
    [][/\ \A p \in Procs :
            Moves(p, "resolveRequest", "request", "idle") =>
               /\ h'[p] = Idle
               /\ users' = users
               /\ \/ /\ resp' = Response("resolveRequest", 200, "success")
                     /\ requests'[h[p].arg.id].requestStatus = h[p].arg.status
                  \/ /\ resp' = Response("resolveRequest", 500, "Server error")
                     /\ requests' = requests
       /\ \A p \in Procs :
            Moves(p, "resolveRequest", "user", "idle") =>
               /\ resp' = Response("resolveRequest", 500, "Server error")
               /\ users' = users /\ requests' = requests
       /\ users' # users =>
            \E p \in Procs :
               /\ Moves(p, "resolveRequest", "user", "request")
               /\ h[p].arg.status = "approved"
       /\ \A p \in Procs :
            (Admitted(p, "resolveRequest") /\ h'[p].arg.status # "approved")
            => h'[p].pc = "request" /\ users' = users]_vars

(* b's chef request was approved, the user write went through and the    *)
(* request write failed: 500, b is a chef with a chefId, the request is   *)
(* still pending.                                                          *)
C15_Witness ==
    /\ resp = Response("resolveRequest", 500, "Server error")
    /\ AllIdle
    /\ users[2].email = "b@x.com" /\ users[2].role = "chef"
    /\ IsChefId(users[2].chefId)
    /\ \A i \in DOMAIN requests : requests[i].requestStatus = "pending"

(***************************************************************************)
(* The store initialization from a fresh process: concurrent requests     *)
(* each await initializeDB, and connect and ping may each reject.          *)
(***************************************************************************)
InitFresh ==
    /\ users = << >>
    /\ requests = << >>
    /\ orders = << >>
    /\ meals = << >>
    /\ favorites = << >>
    /\ db = NotEstablished
    /\ now = 1
    /\ h = [p \in Procs |-> Idle]
    /\ resp = NoResponse

NextFresh ==
    \/ \E p \in Procs : InitializeDBCall(p)
    \/ \E p \in Procs, ok \in BOOLEAN, opened \in BOOLEAN : ConnectSettles(p, ok, opened)
    \/ \E p \in Procs, ok \in BOOLEAN : PingSettles(p, ok)

SpecFresh == InitFresh /\ [][NextFresh]_vars

(* C16: a call made after an initialization has succeeded returns without *)
(* connecting or reassigning collections; a call made when the earlier    *)
(* initializations have all failed (at connect or at the ping; none       *)
(* succeeded, none in progress) does not return as if the store were      *)
(* established; and once an initialization has succeeded the connection  *)
(* has been established once, concurrent first calls included.             *)
C16_InitializedOnce ==
    [][/\ \A p \in Procs :
            (db.succeeded > 0 /\ InitializeDBCall(p)) => db' = db /\ h' = h
       /\ \A p \in Procs :
            (db.failed > 0 /\ db.succeeded = 0 /\ AllIdle /\ InitializeDBCall(p))
            => h'[p].op = "initializeDB"
       /\ db'.succeeded > 0 => db'.connects <= 1]_vars

(***************************************************************************)
(* Sign-in, fraud marking and the role-upgrade workflow together, with    *)
(* sign-in payloads that carry a role and a status.                        *)
(***************************************************************************)
AbsorbRequestBodies == {body \in RequestBodies : body.userEmail = "a@x.com"}

NextAbsorb ==
    \/ \E p \in Procs, user \in SpoofedUserBodies : CreateUserFind(p, user)
    \/ \E p \in Procs : CreateUserInsert(p)
    \/ \E id \in 1..MaxUsers : MarkFraud(id)
    \/ \E p \in Procs, body \in AbsorbRequestBodies : SubmitRequestFind(p, body)
    \/ \E p \in Procs : SubmitRequestInsert(p)
    \/ \E p \in Procs, id \in 1..MaxRequests, status \in ResolveStatuses :
           ResolveRequestFind(p, id, status)
    \/ \E p \in Procs, r \in RandSamples : ResolveRequestUser(p, r)
    \/ \E p \in Procs : ResolveRequestWrite(p)

SpecAbsorb == Init /\ [][NextAbsorb]_vars

(* C17: a user whose status is fraud keeps that status across every step  *)
(* of createUser, markFraud, submitRequest and resolveRequest; the        *)
(* user-write of an approval changes nothing of a user but role and       *)
(* chefId; and every user is created with role user and status active,    *)
(* whatever the payload carries.                                           *)
C17_FraudIsAbsorbing ==
    [][/\ DOMAIN users \subseteq DOMAIN users'
       /\ \A i \in DOMAIN users :
            users[i].status = "fraud" => users'[i].status = "fraud"
       /\ \A p \in Procs :
            Moves(p, "resolveRequest", "user", "request") =>
               /\ DOMAIN users' = DOMAIN users
               /\ \A i \in DOMAIN users :
                     /\ users'[i].status = users[i].status
                     /\ users'[i].email = users[i].email
                     /\ users'[i].name = users[i].name
       /\ \A i \in DOMAIN users' \ DOMAIN users :
            users'[i].role = "user" /\ users'[i].status = "active"]_vars

(* A user marked fraud has since been made an admin by an approval, and   *)
(* is still fraud; a second user has signed in.                            *)
C17_Witness ==
    /\ resp = Response("resolveRequest", 200, "success")
    /\ AllIdle
    /\ Len(users) = 2
    /\ users[1].status = "fraud" /\ users[1].role = "admin"
    /\ users[2].status = "active" /\ users[2].role = "user"
====
